---- MODULE Spec2Model ----
(***************************************************************************)
(* A model of rich/syntax.py: the Syntax renderable.  A Syntax object is   *)
(* built once from its constructor arguments; afterwards it is rendered    *)
(* (__console__) and its theme styles are resolved (_get_theme_style),     *)
(* the only mutable field being the style cache.                           *)
(*                                                                         *)
(* Strings are sequences of one-character strings.  Python's None is the   *)
(* empty tuple; an optional integer n is the tuple <<n>>.                  *)
(***************************************************************************)
EXTENDS Integers, Sequences, FiniteSets, TLC

\* ------------------------------------------------------------------ bounds
\* Most logical lines of a code input.
MaxLines == 2
\* Largest line number a line_range names.
MaxRange == 3

None == <<>>
SP == " "
NL == "\n"
TAB == "\t"

\* ------------------------------------------------------- string primitives
Max(a, b) == IF a >= b THEN a ELSE b
Min(a, b) == IF a <= b THEN a ELSE b

\* c * n
Rep(c, n) == [i \in 1..n |-> c]

\* s.count(c)
Count(s, c) == Cardinality({i \in 1..Len(s) : s[i] = c})

\* s.split(sep): every piece, the empty ones included.
RECURSIVE StrSplit(_, _)
StrSplit(s, sep) ==
  IF \A i \in 1..Len(s) : s[i] # sep
  THEN <<s>>
  ELSE LET i == CHOOSE j \in 1..Len(s) :
                   s[j] = sep /\ \A k \in 1..(j - 1) : s[k] # sep
       IN <<SubSeq(s, 1, i - 1)>> \o StrSplit(SubSeq(s, i + 1, Len(s)), sep)

\* sep.join(pieces)
RECURSIVE StrJoin(_, _)
StrJoin(pieces, sep) ==
  IF Len(pieces) = 0 THEN <<>>
  ELSE IF Len(pieces) = 1 THEN pieces[1]
  ELSE pieces[1] \o <<sep>> \o StrJoin(Tail(pieces), sep)

DigitChars == <<"0", "1", "2", "3", "4", "5", "6", "7", "8", "9">>

\* str(n) for an integer n
RECURSIVE StrNat(_)
StrNat(n) ==
  IF n < 10 THEN <<DigitChars[n + 1]>>
  ELSE StrNat(n \div 10) \o <<DigitChars[(n % 10) + 1]>>

Str(n) == IF n < 0 THEN <<"-">> \o StrNat(0 - n) ELSE StrNat(n)

\* s.rjust(w)
Rjust(s, w) == IF Len(s) >= w THEN s ELSE Rep(SP, w - Len(s)) \o s

\* seq[lo:hi] of Python, lo and hi any integers.
PySlice(seq, lo, hi) ==
  LET n == Len(seq)
      l == IF lo < 0 THEN Max(0, lo + n) ELSE Min(lo, n)
      h == IF hi < 0 THEN Max(0, hi + n) ELSE Min(hi, n)
  IN SubSeq(seq, l + 1, h)

\* ------------------------------------------------------------ textwrap.dedent
IsWhitespace(c) == c \in {SP, TAB}

WhitespaceOnly(line) == \A i \in 1..Len(line) : IsWhitespace(line[i])

\* The leading run of blanks and tabs of a line.
Indent(line) ==
  LET n == IF WhitespaceOnly(line) THEN Len(line)
           ELSE (CHOOSE j \in 1..Len(line) :
                   ~IsWhitespace(line[j]) /\ \A k \in 1..(j - 1) : IsWhitespace(line[k])) - 1
  IN SubSeq(line, 1, n)

CommonPrefix(a, b) ==
  LET n == CHOOSE j \in 0..Min(Len(a), Len(b)) :
             /\ \A k \in 1..j : a[k] = b[k]
             /\ (j < Min(Len(a), Len(b)) => a[j + 1] # b[j + 1])
  IN SubSeq(a, 1, n)

\* The margin textwrap.dedent computes: the longest prefix common to the
\* indents of the lines that hold something besides whitespace (None
\* when there is no such line).
RECURSIVE Margin(_, _)
Margin(lines, margin) ==
  IF Len(lines) = 0 THEN margin
  ELSE LET line == Head(lines)
           next == IF WhitespaceOnly(line) THEN margin
                   ELSE IF margin = None THEN <<Indent(line)>>
                   ELSE <<CommonPrefix(margin[1], Indent(line))>>
       IN Margin(Tail(lines), next)

StartsWith(s, prefix) ==
  Len(prefix) <= Len(s) /\ SubSeq(s, 1, Len(prefix)) = prefix

\* textwrap.dedent(code): whitespace-only lines become empty, then the
\* margin is removed from the start of every line that has it.
Dedent(code) ==
  LET raw == StrSplit(code, NL)
      norm == [i \in 1..Len(raw) |-> IF WhitespaceOnly(raw[i]) THEN <<>> ELSE raw[i]]
      m == Margin(norm, None)
      margin == IF m = None THEN <<>> ELSE m[1]
      strip(line) == IF Len(margin) > 0 /\ StartsWith(line, margin)
                     THEN SubSeq(line, Len(margin) + 1, Len(line))
                     ELSE line
  IN StrJoin([i \in 1..Len(norm) |-> strip(norm[i])], NL)

\* ------------------------------------------------------------------- styles
\* Style(color, bgcolor, bold, italic, underline); an attribute that is not
\* set is None.
Style(color, bgcolor, bold, italic, underline) ==
  [color |-> color, bgcolor |-> bgcolor, bold |-> bold,
   italic |-> italic, underline |-> underline]

NullStyle == Style(None, None, None, None, None)

Over(a, b) == IF b = None THEN a ELSE b

\* style + other: the attributes other sets win.
StyleAdd(a, b) ==
  Style(Over(a.color, b.color), Over(a.bgcolor, b.bgcolor), Over(a.bold, b.bold),
        Over(a.italic, b.italic), Over(a.underline, b.underline))

\* The token kinds of the model: plain text, names, and a kind the theme
\* has no entry for.
TokenKinds == {"Token.Text", "Token.Name", "Token.Other"}

\* The theme: self._pygments_style_class, its background_color and its
\* style_for_token, the latter undefined (KeyError) outside its domain.
BackgroundColor == <<"#272822">>

ThemeStyles ==
  [k \in {"Token.Text", "Token.Name"} |->
     IF k = "Token.Text"
     THEN [color |-> "f8f8f2", bgcolor |-> "", bold |-> FALSE,
           italic |-> FALSE, underline |-> FALSE]
     ELSE [color |-> "", bgcolor |-> "49483e", bold |-> TRUE,
           italic |-> FALSE, underline |-> FALSE]]

\* The style computed on a cache miss.
ThemeLookup(token_type) ==
  IF token_type \notin DOMAIN ThemeStyles
  THEN NullStyle
  ELSE LET pygments_style == ThemeStyles[token_type]
       IN Style(IF pygments_style.color # "" THEN <<"#", pygments_style.color>>
                ELSE <<"#000000">>,
                IF pygments_style.bgcolor # "" THEN <<"#", pygments_style.bgcolor>>
                ELSE BackgroundColor,
                <<pygments_style.bold>>,
                <<pygments_style.italic>>,
                <<pygments_style.underline>>)

\* A store that keeps no other entry.
CacheStore_Evicting(cache, token_type, style) ==
  [k \in {token_type} |-> style]

\* self._style_cache[token_type] = style
CacheStore(cache, token_type, style) ==
  [k \in DOMAIN cache \cup {token_type} |->
     IF k = token_type THEN style ELSE cache[k]]

\* _get_theme_style: the style returned, the cache afterwards, and whether
\* the cache already held the kind.
GetThemeStyle(cache, token_type) ==
  IF token_type \in DOMAIN cache
  THEN [style |-> cache[token_type], cache |-> cache, hit |-> TRUE]
  ELSE LET style == ThemeLookup(token_type)
       IN [style |-> style, cache |-> CacheStore(cache, token_type, style),
           hit |-> FALSE]

\* _get_default_style
GetDefaultStyle(cache) ==
  LET r == GetThemeStyle(cache, "Token.Text")
  IN [style |-> StyleAdd(r.style, Style(None, BackgroundColor, None, None, None)),
      cache |-> r.cache]

\* ---------------------------------------------------------------- the lexer
\* The lexer registry knows one name; get_lexer_by_name raises ClassNotFound
\* for any other.
LexerNames == {"python", "nosuchlexer"}
LexerRegistry == {"python"}

\* s.strip("\n")
RECURSIVE StripNewlines(_)
StripNewlines(s) ==
  IF Len(s) > 0 /\ s[1] = NL THEN StripNewlines(Tail(s))
  ELSE IF Len(s) > 0 /\ s[Len(s)] = NL THEN StripNewlines(SubSeq(s, 1, Len(s) - 1))
  ELSE s

TokenKindOf(c) == IF c \in {SP, TAB, NL} THEN "Token.Text" ELSE "Token.Name"

\* Maximal runs of characters of one token kind, in order.
RECURSIVE Tokenize(_)
Tokenize(s) ==
  IF Len(s) = 0 THEN <<>>
  ELSE LET kind == TokenKindOf(s[1])
           n == CHOOSE j \in 1..Len(s) :
                  /\ \A k \in 1..j : TokenKindOf(s[k]) = kind
                  /\ (j < Len(s) => TokenKindOf(s[j + 1]) # kind)
       IN <<[token_type |-> kind, token |-> SubSeq(s, 1, n)]>>
          \o Tokenize(SubSeq(s, n + 1, Len(s)))

\* lexer.get_tokens(code) with the lexer's default options: newlines are
\* stripped from both ends of the input and one is added at its end, and
\* the fragments of the stream cover the text in order.
GetTokens(code) ==
  LET stripped == StripNewlines(code)
  IN Tokenize(stripped \o <<NL>>)

\* ------------------------------------------------------------------ _highlight
\* Text(plain, style): a styled run, its spans the styled fragments appended.
RECURSIVE AppendTokens(_, _, _)
AppendTokens(tokens, text, cache) ==
  IF Len(tokens) = 0 THEN [text |-> text, cache |-> cache]
  ELSE LET r == GetThemeStyle(cache, Head(tokens).token_type)
           appended == [plain |-> text.plain \o Head(tokens).token,
                        style |-> text.style,
                        spans |-> Append(text.spans,
                                         [start |-> Len(text.plain),
                                          end |-> Len(text.plain) + Len(Head(tokens).token),
                                          style |-> r.style])]
       IN AppendTokens(Tail(tokens), appended, r.cache)

\* _highlight(lexer_name) on an object whose code field is self_code: the
\* styled run and the cache afterwards.
Highlight(self_code, lexer_name, cache) ==
  LET d == GetDefaultStyle(cache)
  IN IF lexer_name \notin LexerRegistry
     THEN [text |-> [plain |-> self_code, style |-> d.style, spans |-> <<>>],
           cache |-> d.cache]
     ELSE AppendTokens(GetTokens(self_code),
                       [plain |-> <<>>, style |-> d.style, spans |-> <<>>],
                       d.cache)

\* ----------------------------------------------------------- the gutter width
\* A width taken from the number of lines, not of newlines.
NumbersColumnWidth_LineCount(line_numbers, start_line, code) ==
  IF line_numbers THEN Len(Str(start_line + Count(code, NL) + 1)) + 2 ELSE 0

\* _numbers_column_width
NumbersColumnWidth(line_numbers, start_line, code) ==
  IF line_numbers THEN Len(Str(start_line + Count(code, NL))) + 2 ELSE 0

\* ----------------------------------------------- Text.split and render_lines
\* text.split("\n"): the logical lines; a separator that ends the text
\* starts no further line.
Split(plain) ==
  LET pieces == StrSplit(plain, NL)
  IN IF Len(pieces) > 1 /\ Len(pieces[Len(pieces)]) = 0
     THEN SubSeq(pieces, 1, Len(pieces) - 1)
     ELSE pieces

\* console.render_lines(line, width): the physical rows of one logical
\* line, each filled to the width, at least one row.
RECURSIVE RenderLines(_, _)
RenderLines(line, width) ==
  IF Len(line) <= width
  THEN <<line \o Rep(SP, width - Len(line))>>
  ELSE <<SubSeq(line, 1, width)>> \o RenderLines(SubSeq(line, width + 1, Len(line)), width)

\* ------------------------------------------------------------- __console__
\* line_pointer: the character U+2771 and a blank.
LinePointer == <<"U+2771", SP>>

\* line_offset = max(0, start_line - 1) of a given line_range, else 0
LineOffset(line_range) ==
  IF line_range # None THEN Max(0, line_range[1] - 1) ELSE 0

\* A slice that leaves the line end_line out.
SliceLines_ExclusiveEnd(lines, line_range) ==
  IF line_range # None
  THEN PySlice(lines, LineOffset(line_range), line_range[2] - 1)
  ELSE lines

\* lines = lines[line_offset:end_line] of a given line_range
SliceLines(lines, line_range) ==
  IF line_range # None
  THEN PySlice(lines, LineOffset(line_range), line_range[2])
  ELSE lines

\* A numbering that forgets the lines the slice skipped.
LineNo_NoOffset(start_line, line_offset, i) == start_line + (i - 1)

\* A numbering that counts the lines of the slice from 1, not from 0.
LineNo_OffByOne(start_line, line_offset, i) == start_line + line_offset + i

\* The number enumerate(lines, self.start_line + line_offset) gives the
\* i-th line of the slice, i counted from 1.
LineNo(start_line, line_offset, i) == start_line + line_offset + (i - 1)

\* line_column
LineColumn(line_no, numbers_column_width) ==
  Rjust(Str(line_no), numbers_column_width - 2) \o <<SP>>

\* padding
Padding(numbers_column_width) == Rep(SP, numbers_column_width)

\* A segment carries the name of the gutter style it is yielded with; the
\* colours _get_number_styles blends are not modelled (its _get_theme_style
\* calls are for Token.Text, which _highlight has cached by then).
Segment(text, style) == [text |-> text, style |-> style]

\* The gutter segments yielded before the first row of a logical line.
FirstGutter(line_no, numbers_column_width, highlight_lines) ==
  IF line_no \in highlight_lines
  THEN <<Segment(LinePointer, "number_style"),
         Segment(LineColumn(line_no, numbers_column_width), "highlight_number_style")>>
  ELSE <<Segment(<<SP, SP>>, "highlight_number_style"),
         Segment(LineColumn(line_no, numbers_column_width), "number_style")>>

\* A gutter that does not tell the first row from the others.
RowGutter_AlwaysFirst(first, line_no, numbers_column_width, highlight_lines) ==
  FirstGutter(line_no, numbers_column_width, highlight_lines)

\* The gutter segments yielded before a row of a logical line.
RowGutter(first, line_no, numbers_column_width, highlight_lines) ==
  IF first
  THEN FirstGutter(line_no, numbers_column_width, highlight_lines)
  ELSE <<Segment(Padding(numbers_column_width), "background_style")>>

\* The width of render_options.
RenderWidth(code_width, numbers_column_width) == code_width + numbers_column_width

\* The rows of one logical line: its gutter segments, its content, and the
\* loop variables line_no, line and first they were yielded under.
LineRows(line_no, line, width, numbers_column_width, highlight_lines) ==
  LET wrapped_lines == RenderLines(line, width)
  IN [j \in 1..Len(wrapped_lines) |->
        [line_no |-> line_no, line |-> line, first |-> (j = 1),
         gutter |-> RowGutter(j = 1, line_no, numbers_column_width, highlight_lines),
         content |-> wrapped_lines[j]]]

\* The rows of the loop over enumerate(lines, self.start_line + line_offset),
\* from its i-th line on.
RECURSIVE AllRows(_, _, _, _, _, _, _)
AllRows(lines, i, start_line, line_offset, width, numbers_column_width, highlight_lines) ==
  IF i > Len(lines) THEN <<>>
  ELSE LineRows(LineNo(start_line, line_offset, i), lines[i], width,
                numbers_column_width, highlight_lines)
       \o AllRows(lines, i + 1, start_line, line_offset, width,
                  numbers_column_width, highlight_lines)

\* A row yielded without a gutter.
PlainRow(content) ==
  [line_no |-> 0, line |-> content, first |-> TRUE, gutter |-> <<>>, content |-> content]

RECURSIVE PlainRows(_, _, _)
PlainRows(lines, i, width) ==
  IF i > Len(lines) THEN <<>>
  ELSE LET wrapped_lines == RenderLines(lines[i], width)
       IN [j \in 1..Len(wrapped_lines) |-> PlainRow(wrapped_lines[j])]
          \o PlainRows(lines, i + 1, width)

\* __console__(console, options) with options.max_width = max_width: the
\* styled run, the cache afterwards, the rows yielded and the width handed
\* to the wrap primitive (None when nothing is wrapped).
Console(obj, cache, max_width) ==
  LET code_width == IF obj.code_width = None THEN max_width ELSE obj.code_width[1]
      code == IF obj.dedent THEN Dedent(obj.code) ELSE obj.code
      h == Highlight(obj.code, obj.lexer_name, cache)
      lines == Split(h.text.plain)
      numbers_column_width == NumbersColumnWidth(obj.line_numbers, obj.start_line, obj.code)
      width == RenderWidth(code_width, numbers_column_width)
  IN IF ~obj.line_numbers
     THEN IF obj.code_width = None
          THEN [text |-> h.text, cache |-> h.cache, out |-> <<PlainRow(h.text.plain)>>,
                wrap_width |-> None]
          ELSE [text |-> h.text, cache |-> h.cache,
                out |-> PlainRows(lines, 1, code_width),
                wrap_width |-> <<code_width>>]
     ELSE [text |-> h.text, cache |-> h.cache,
           out |-> AllRows(SliceLines(lines, obj.line_range), 1,
                           obj.start_line, LineOffset(obj.line_range),
                           width, numbers_column_width, obj.highlight_lines),
           wrap_width |-> <<width>>]

\* ------------------------------------------------------------ the requests
\* Rep(SP, n) \o Rep("x", m) for a few n and m.
CodeLines ==
  { <<>>, <<SP, SP>>, <<SP, "x">>, <<SP, SP, "x">>,
    <<"x", "x", "x", "x", "x", "x">> }

\* The code inputs: up to MaxLines lines joined by newlines (an empty last
\* line makes the code end in a newline).
Codes ==
  { StrJoin(ls, NL) : ls \in UNION { [1..n -> CodeLines] : n \in 1..MaxLines } }

StartLines == {1, 9}

LineRanges ==
  {None} \cup { <<s, e>> : s \in 0..MaxRange, e \in 1..MaxRange }

HighlightSets == { {}, {1, 10} }

CodeWidths == {None, <<1>>}

\* The widths the console offers (options.max_width).
ConsoleWidths == {1, 2}

\* Syntax(code, lexer_name, dedent=..., line_numbers=..., ...)
Syntax(code, lexer_name, dedent, line_numbers, start_line, line_range, highlight_lines, code_width) ==
  [code |-> code, lexer_name |-> lexer_name, dedent |-> dedent,
   line_numbers |-> line_numbers, start_line |-> start_line,
   line_range |-> line_range, highlight_lines |-> highlight_lines,
   code_width |-> code_width]

\* The requests of the model: without line numbers the gutter arguments
\* keep their defaults.
Requests ==
  { Syntax(c, l, d, FALSE, 1, None, {}, w) :
      c \in Codes, l \in LexerNames, d \in BOOLEAN, w \in CodeWidths }
  \cup
  { Syntax(c, l, d, TRUE, p[1], p[2], p[3], w) :
      c \in Codes, l \in LexerNames, d \in BOOLEAN, w \in CodeWidths,
      p \in { q \in StartLines \X LineRanges \X HighlightSets :
                q[2] = None \/ q[2][1] <= q[2][2] } }

\* -------------------------------------------------------- the state machine
\* self: the fields __init__ sets; style_cache: self._style_cache; text, out
\* and wrap_width: the styled run, the rows and the wrap width of the last
\* render, options its max_width; ret: the last _get_theme_style call made
\* from outside a render.  text, options and ret are None or a 1-tuple.
VARIABLES self, style_cache, text, out, wrap_width, options, ret

vars == <<self, style_cache, text, out, wrap_width, options, ret>>

Fresh ==
  /\ style_cache = <<>>
  /\ text = None
  /\ out = <<>>
  /\ wrap_width = None
  /\ options = None
  /\ ret = None

\* After __init__: nothing rendered, the cache empty.
Init == self \in Requests /\ Fresh

\* The one-line requests with every gutter argument at its default.
InitCache ==
  /\ self \in { r \in Requests : /\ Count(r.code, NL) = 0
                                 /\ r.start_line = 1
                                 /\ r.line_range = None
                                 /\ r.highlight_lines = {} }
  /\ Fresh

\* A call of _get_theme_style(token_type) from outside a render.
Resolve(token_type) ==
  LET r == GetThemeStyle(style_cache, token_type)
  IN /\ style_cache' = r.cache
     /\ ret' = <<[token_type |-> token_type, style |-> r.style, hit |-> r.hit]>>
     /\ UNCHANGED <<self, text, out, wrap_width, options>>

\* A render, __console__ run to its end, the console max_width wide.
Render(max_width) ==
  LET r == Console(self, style_cache, max_width)
  IN /\ style_cache' = r.cache
     /\ text' = <<r.text>>
     /\ out' = r.out
     /\ wrap_width' = r.wrap_width
     /\ options' = <<max_width>>
     /\ UNCHANGED <<self, ret>>

ResolveAny == \E token_type \in TokenKinds : Resolve(token_type)

RenderAny == \E max_width \in ConsoleWidths : Render(max_width)

Next == ResolveAny \/ RenderAny

\* Renders of every request.
Spec == Init /\ [][RenderAny]_vars

\* Renders and resolve calls, interleaved, of the one-line requests.
SpecCache == InitCache /\ [][Next]_vars

\* ============================================================== properties
Rendered == options # None

\* The logical lines of the styled run of the last render.
Lines == Split(text[1].plain)

\* The gutter width of the object.
GutterWidth == NumbersColumnWidth(self.line_numbers, self.start_line, self.code)

\* The rows that are the first of their logical line.
FirstRows == SelectSeq(out, LAMBDA r : r.first)

\* The logical lines a render emitted, and the numbers they were given.
EmittedLines == [i \in 1..Len(FirstRows) |-> FirstRows[i].line]
EmittedNumbers == [i \in 1..Len(FirstRows) |-> FirstRows[i].line_no]

\* The characters of the gutter segments of a row.
GutterText(r) ==
  IF Len(r.gutter) = 0 THEN <<>>
  ELSE IF Len(r.gutter) = 1 THEN r.gutter[1].text
  ELSE r.gutter[1].text \o r.gutter[2].text

\* The number of decimal digits of n >= 1.
Digits(n) == CHOOSE d \in 1..9 : 10^(d - 1) <= n /\ n < 10^d

\* ---- C1
C1_Case ==
  /\ Rendered /\ self.line_numbers /\ self.line_range # None
  /\ 1 <= self.line_range[1]
  /\ self.line_range[1] <= self.line_range[2]
  /\ self.line_range[2] <= Len(Lines)

\* C1 as stated: with line numbers on and a line_range (s, e), 1 <= s <= e <=
\* number of logical lines, a render emits exactly the logical lines s..e and
\* numbers them s..e in the gutter, whatever start_line is.
C1_Original ==
  C1_Case =>
    LET s == self.line_range[1]
        e == self.line_range[2]
    IN /\ EmittedLines = SubSeq(Lines, s, e)
       /\ EmittedNumbers = [i \in 1..(e - s + 1) |-> s + (i - 1)]

\* C1 amended: with line numbers on and a line_range (s, e), 1 <= s <= e <=
\* number of logical lines, a render emits exactly the logical lines s..e and
\* numbers them start_line + s - 1 .. start_line + e - 1 in the gutter (s..e
\* exactly when start_line is 1).
C1_Amended ==
  C1_Case =>
    LET s == self.line_range[1]
        e == self.line_range[2]
    IN /\ EmittedLines = SubSeq(Lines, s, e)
       /\ EmittedNumbers = [i \in 1..(e - s + 1) |-> self.start_line + s - 1 + (i - 1)]

\* A render of the second of two different lines, start_line being 9.
C1_Witness ==
  /\ C1_Case
  /\ self.start_line = 9
  /\ self.line_range = <<2, 2>>
  /\ Len(Lines) = 2 /\ Lines[1] # Lines[2]
  /\ EmittedNumbers = <<10>>

\* ---- C2
\* C2 as stated: with dedent on, the text a render highlights and emits is the
\* dedented code: the styled run is the one highlighting builds from
\* textwrap.dedent(code).
C2_Claim ==
  (Rendered /\ self.dedent) =>
    text[1].plain = Highlight(Dedent(self.code), self.lexer_name, <<>>).text.plain

\* ---- C3
\* C3 as stated: with line numbers on, every logical line is wrapped to
\* code_width when one is set and else to the available width minus the
\* gutter width; the wrap width never has the gutter width added to it.
C3_Claim ==
  (Rendered /\ self.line_numbers) =>
    wrap_width = << IF self.code_width # None THEN self.code_width[1]
                    ELSE options[1] - GutterWidth >>

\* ---- C4
\* C4: the gutter width is digits(start_line + number of newlines in the
\* code) + 2 with line numbers on and 0 with them off, and the blank gutter
\* of every continuation row a render yields is that wide.
C4_Theorem ==
  LET expected == IF self.line_numbers
                  THEN Digits(self.start_line + (Len(StrSplit(self.code, NL)) - 1)) + 2
                  ELSE 0
  IN /\ GutterWidth = expected
     /\ \A i \in 1..Len(out) :
          (self.line_numbers /\ ~out[i].first) => Len(GutterText(out[i])) = expected

\* A render with a two-digit gutter number and a continuation row.
C4_Witness ==
  /\ Rendered /\ self.line_numbers
  /\ self.start_line + Count(self.code, NL) >= 10
  /\ GutterWidth = 4
  /\ \E i \in 1..Len(out) : ~out[i].first

\* ---- C5
IsBlank(s) == \A i \in 1..Len(s) : s[i] = SP

\* C5: with line numbers on, the gutter of the first row of a logical line
\* whose number is in highlight_lines begins with the pointer marker; the
\* gutter of every continuation row is blank; and no row of a line whose
\* number is not in highlight_lines has the marker.
C5_Theorem ==
  (Rendered /\ self.line_numbers) =>
    \A i \in 1..Len(out) :
      LET r == out[i]
          g == GutterText(r)
      IN /\ (r.first /\ r.line_no \in self.highlight_lines)
              => StartsWith(g, LinePointer)
         /\ ~r.first => (Len(g) > 0 /\ IsBlank(g))
         /\ (r.line_no \notin self.highlight_lines)
              => \A j \in 1..Len(g) : g[j] # LinePointer[1]

\* A highlighted line wrapped into more than one row, and a line that is not
\* highlighted.
C5_Witness ==
  /\ Rendered /\ self.line_numbers
  /\ \E i \in 1..Len(out) : ~out[i].first /\ out[i].line_no \in self.highlight_lines
  /\ \E i \in 1..Len(out) : out[i].line_no \notin self.highlight_lines

\* ---- C6
\* C6 as stated: for a lexer name the registry does not know, the styled run
\* a render builds has the (dedented) code as its text, character for
\* character, and the default style alone.
C6_Claim ==
  (Rendered /\ self.lexer_name \notin LexerRegistry) =>
    /\ text[1].plain = (IF self.dedent THEN Dedent(self.code) ELSE self.code)
    /\ text[1].spans = <<>>
    /\ text[1].style = GetDefaultStyle(<<>>).style

\* ---- C7
\* C7: a cache entry, once written, is never changed or removed, and a
\* resolve call for a kind the cache holds returns the style it holds (so
\* every call for a kind returns what the first call returned).
C7_Theorem ==
  [][\A k \in DOMAIN style_cache :
        /\ k \in DOMAIN style_cache'
        /\ style_cache'[k] = style_cache[k]
        /\ (ret' # None /\ ret'[1].token_type = k) => ret'[1].style = style_cache[k]]_vars

\* A repeated resolve call for the kind the theme has no entry for, after a
\* render.
C7_Witness ==
  /\ Rendered
  /\ ret # None /\ ret[1].hit /\ ret[1].token_type = "Token.Other"
  /\ ret[1].style = NullStyle
  /\ DOMAIN style_cache = TokenKinds

\* ---- C8
\* C8: with line numbers on, a render emits exactly the logical lines at the
\* positions max(1, s) .. min(e, N) of a line_range (s, e), and all N without
\* a line_range.
C8_Theorem ==
  (Rendered /\ self.line_numbers) =>
    EmittedLines =
      (IF self.line_range = None THEN Lines
       ELSE SubSeq(Lines, Max(1, self.line_range[1]),
                   Min(self.line_range[2], Len(Lines))))

\* A render whose line_range ends past the last line and still emits lines.
C8_Witness ==
  /\ Rendered /\ self.line_numbers /\ self.line_range # None
  /\ self.line_range[2] > Len(Lines)
  /\ Len(Lines) = 2
  /\ Len(EmittedLines) = 1

\* ---- C9
\* C9 as stated: with line numbers on, the gutter text of every row, first or
\* continuation, is exactly gutter-width characters long.
C9_Claim ==
  (Rendered /\ self.line_numbers) =>
    \A i \in 1..Len(out) : Len(GutterText(out[i])) = GutterWidth

\* ---- C10
\* C10: with line numbers on, every number in the gutter is at most
\* start_line + number of newlines in the code, has at most gutter width - 2
\* digits, and its right-justified field is gutter width - 2 wide.
C10_Theorem ==
  (Rendered /\ self.line_numbers) =>
    \A i \in 1..Len(out) :
      out[i].first =>
        /\ out[i].line_no <= self.start_line + Count(self.code, NL)
        /\ Len(Str(out[i].line_no)) <= GutterWidth - 2
        /\ Len(out[i].gutter[2].text) = (GutterWidth - 2) + 1

\* A render whose last number is start_line + number of newlines and has one
\* digit more than start_line.
C10_Witness ==
  /\ Rendered /\ self.line_numbers
  /\ self.start_line = 9
  /\ \E i \in 1..Len(out) :
       out[i].first /\ out[i].line_no = 10 /\ Count(self.code, NL) = 1

====
